---- MODULE Spec2Model ----
(***************************************************************************)
(* Model of the ink! contract burger_shop (src/lib.rs).                    *)
(*                                                                         *)
(* Storage is the pair (orders, orders_mapping).  The host environment is  *)
(* the caller, the value transferred with the call and the message that    *)
(* is being dispatched.  Balance is u128: it is kept as a little-endian    *)
(* sequence of base-10^4 limbs without trailing zero limbs, because the    *)
(* payment unit 10^12 does not fit the model checker's integers.           *)
(***************************************************************************)
EXTENDS Integers, Sequences, FiniteSets, TLC

(* ------------------------------ bounds -------------------------------- *)
MaxOrders == 2
MaxLen == 2
MaxAmount == 2

(* --------------------------- Balance (u128) ---------------------------- *)
Base == 10^4

RECURSIVE BigOfNat(_)
BigOfNat(n) == IF n = 0 THEN <<>> ELSE <<n % Base>> \o BigOfNat(n \div Base)

RECURSIVE BigNorm(_)
BigNorm(a) ==
  IF a = <<>> THEN <<>>
  ELSE IF a[Len(a)] = 0 THEN BigNorm(SubSeq(a, 1, Len(a) - 1))
  ELSE a

RECURSIVE BigAddC(_, _, _)
BigAddC(a, b, c) ==
  IF a = <<>> /\ b = <<>> THEN (IF c = 0 THEN <<>> ELSE <<c>>)
  ELSE LET x == IF a = <<>> THEN 0 ELSE Head(a)
           y == IF b = <<>> THEN 0 ELSE Head(b)
           s == x + y + c
       IN  <<s % Base>> \o BigAddC(IF a = <<>> THEN <<>> ELSE Tail(a),
                                   IF b = <<>> THEN <<>> ELSE Tail(b),
                                   s \div Base)

BigAdd(a, b) == BigNorm(BigAddC(a, b, 0))

RECURSIVE BigMulLimb(_, _, _)
BigMulLimb(a, d, c) ==
  IF a = <<>> THEN (IF c = 0 THEN <<>> ELSE <<c>>)
  ELSE LET s == Head(a) * d + c
       IN  <<s % Base>> \o BigMulLimb(Tail(a), d, s \div Base)

RECURSIVE BigMul(_, _)
BigMul(a, b) ==
  IF b = <<>> THEN <<>>
  ELSE BigAdd(BigNorm(BigMulLimb(a, Head(b), 0)),
              BigNorm(<<0>> \o BigMul(a, Tail(b))))

RECURSIVE BigLess(_, _)
BigLess(a, b) ==
  IF Len(a) # Len(b) THEN Len(a) < Len(b)
  ELSE IF a = <<>> THEN FALSE
  ELSE IF a[Len(a)] # b[Len(b)] THEN a[Len(a)] < b[Len(b)]
  ELSE BigLess(SubSeq(a, 1, Len(a) - 1), SubSeq(b, 1, Len(b) - 1))

\* u128::MAX = 340282366920938463463374607431768211455
U128Max == <<1455, 6821, 4317, 4607, 6337, 4634, 938, 6692, 2823, 340>>

\* u128::checked_mul
checked_mul_saturating(a, b) ==
  LET p == BigMul(a, b)
  IN  [tag |-> "Some", value |-> IF BigLess(U128Max, p) THEN U128Max ELSE p]

checked_mul(a, b) ==
  LET p == BigMul(a, b)
  IN  IF BigLess(U128Max, p) THEN [tag |-> "None"]
      ELSE [tag |-> "Some", value |-> p]

(* ------------------------------ catalog -------------------------------- *)
BurgerMenu == {"CheeseBurger", "ChickenBurger", "VeggieBurger"}

BurgerMenu_price(m) ==
  CASE m = "CheeseBurger" -> 12
    [] m = "VeggieBurger" -> 10
    [] m = "ChickenBurger" -> 15

FoodItem_price_flat(item) == BigOfNat(BurgerMenu_price(item.burger_menu))

FoodItem_price(item) ==
  BigMul(BigOfNat(BurgerMenu_price(item.burger_menu)), BigOfNat(item.amount))

RECURSIVE total_from(_, _)
total_from(list_of_items, total) ==
  IF list_of_items = <<>> THEN total
  ELSE total_from(Tail(list_of_items),
                  BigAdd(total, FoodItem_price(Head(list_of_items))))

Order_total_price(list_of_items) == total_from(list_of_items, <<>>)

Order_new(list_of_items, customer, id) ==
  [list_of_items |-> list_of_items,
   customer      |-> customer,
   total_price   |-> Order_total_price(list_of_items),
   paid          |-> FALSE,
   order_id      |-> id]

(* ------------------------- host environment ---------------------------- *)
\* the accounts of ink::env::test::default_accounts that the tests use
Accounts == {"alice", "bob", "charlie"}

\* self.env().account_id(): the contract's own account (the test sets the
\* callee to bob)
account_id == "bob"

\* 1 Azero in the payment unit: 1_000_000_000_000
multiply == <<0, 0, 0, 1>>

FoodItems == [burger_menu : BurgerMenu, amount : 0..MaxAmount]

ItemLists == UNION {[1..n -> FoodItems] : n \in 0..MaxLen}

\* values a caller attaches to the call: nothing, the bare price of two
\* veggie burgers, that price in the payment unit, one unit more than it, and
\* the price of a cheese burger plus a veggie burger in the payment unit
TenderedValues ==
  {<<>>, BigOfNat(20), BigMul(BigOfNat(20), multiply),
   BigAdd(BigMul(BigOfNat(20), multiply), BigOfNat(1)),
   BigMul(BigOfNat(22), multiply)}

None == [tag |-> "None"]

VARIABLES
  orders,             \* Vec<(u32, Order)>
  orders_mapping,     \* Mapping<u32, Order>
  caller,             \* env().caller() of the next call
  transferred_value,  \* env().transferred_value() of the next call
  msg,                \* the message being dispatched, or None
  ret,                \* what the last call returned, or how it aborted
  last_transfer,      \* the env().transfer the last call made, or None
  transfers,          \* the transfers the host carried out
  events,             \* the Transfer events emitted
  returned            \* the orders that callers received as Ok(order)

vars == <<orders, orders_mapping, caller, transferred_value, msg, ret,
          last_transfer, transfers, events, returned>>

\* BurgerShop::new
Init ==
  /\ orders = <<>>
  /\ orders_mapping = <<>>
  /\ caller = "alice"
  /\ transferred_value = <<>>
  /\ msg = None
  /\ ret = None
  /\ last_transfer = None
  /\ transfers = <<>>
  /\ events = <<>>
  /\ returned = <<>>

(* ------------------- take_order_and_payment, by step ------------------- *)
\* assert!(caller != self.env().account_id(), ...)
caller_is_customer_any(c) == TRUE

caller_is_customer(c) == c # account_id

\* for item in &list_of_items { assert!(item.amount > 0, ...) }
items_not_empty_first(list_of_items) ==
  list_of_items = <<>> \/ list_of_items[1].amount > 0

items_not_empty(list_of_items) ==
  \A i \in 1..Len(list_of_items) : list_of_items[i].amount > 0

\* let id = self.orders.len() as u32
next_id_const(ords) == 0

next_id(ords) == Len(ords)

\* let mut order = Order::new(list_of_items, caller, id);
\* order.total_price = total_price;
new_order(list_of_items, c, id) ==
  [Order_new(list_of_items, c, id) EXCEPT
     !.total_price = Order_total_price(list_of_items)]

\* transfered_val == order.total_price.checked_mul(multiply).expect(..)
value_matches_atleast(transfered_val, expected) ==
  ~ BigLess(transfered_val, expected)

value_matches(transfered_val, expected) == transfered_val = expected

\* self.orders_mapping.insert(id, &order)
mapping_insert_first(m, id, order) ==
  [k \in (DOMAIN m) \cup {0} |-> IF k = 0 THEN order ELSE m[k]]

mapping_insert_skip(m, id, order) == m

mapping_insert(m, id, order) ==
  [k \in (DOMAIN m) \cup {id} |-> IF k = id THEN order ELSE m[k]]

\* the storage and the effects a call leaves behind
Outcome(ords, m, r, t, done, evs) ==
  [orders |-> ords, orders_mapping |-> m, ret |-> r, last_transfer |-> t,
   transfers |-> done, events |-> evs]

\* a failed assert! aborts the call; nothing was written before it
panic_dirty(ords, m, done, evs, message) ==
  Outcome(Append(ords, <<Len(ords), Order_new(<<>>, account_id, Len(ords))>>),
          m, [tag |-> "Panic", message |-> message], None, done, evs)

panic(ords, m, done, evs, message) ==
  Outcome(ords, m, [tag |-> "Panic", message |-> message], None, done, evs)

\* Err(_) => Err(BurgerShopError::PaymentError)
transfer_failed_partial(ords, m, done, evs, order, t) ==
  Outcome(ords, mapping_insert(m, Len(ords), [order EXCEPT !.paid = TRUE]),
          [tag |-> "Err", err |-> "PaymentError"], t, done, evs)

transfer_failed(ords, m, done, evs, order, t) ==
  Outcome(ords, m, [tag |-> "Err", err |-> "PaymentError"], t, done, evs)

\* Ok(_) => { ... }
transfer_succeeded_unpaid(ords, m, done, evs, order, t) ==
  LET id == Len(ords)
  IN  Outcome(Append(ords, <<id, order>>),
              mapping_insert(m, id, order),
              [tag |-> "Ok", order |-> order],
              t,
              Append(done, [to |-> t.to, value |-> t.value]),
              Append(evs, [from |-> order.customer, to |-> account_id,
                           value |-> order.total_price]))

transfer_succeeded_stale(ords, m, done, evs, order, t) ==
  LET id == Len(ords)
      paid_order == [order EXCEPT !.paid = TRUE]
  IN  Outcome(Append(ords, <<id, paid_order>>),
              mapping_insert(m, id, paid_order),
              [tag |-> "Ok", order |-> order],
              t,
              Append(done, [to |-> t.to, value |-> t.value]),
              Append(evs, [from |-> paid_order.customer, to |-> account_id,
                           value |-> paid_order.total_price]))

transfer_succeeded(ords, m, done, evs, order, t) ==
  LET id == Len(ords)
      paid_order == [order EXCEPT !.paid = TRUE]
  IN  Outcome(Append(ords, <<id, paid_order>>),
              mapping_insert(m, id, paid_order),
              [tag |-> "Ok", order |-> paid_order],
              t,
              Append(done, [to |-> t.to, value |-> t.value]),
              Append(evs, [from |-> paid_order.customer, to |-> account_id,
                           value |-> paid_order.total_price]))

\* the message from the assertion on order.paid on, for an order that was
\* built and one answer of the host's transfer
pay_order(ords, m, done, evs, order, transfered_val, transfer_ok) ==
  LET converted == checked_mul(order.total_price, multiply)
  IN  IF order.paid # FALSE
      THEN panic(ords, m, done, evs,
                 "Can't pay for an order that is paid for already")
      ELSE IF converted.tag = "None"
      THEN panic(ords, m, done, evs, "Overflow!!!")
      ELSE IF ~ value_matches(transfered_val, converted.value)
      THEN panic(ords, m, done, evs,
                 "Please pay complete amount which is {}")
      ELSE
        LET t == [tag |-> "Some", to |-> account_id,
                  value |-> order.total_price, ok |-> transfer_ok]
        IN  IF transfer_ok
            THEN transfer_succeeded(ords, m, done, evs, order, t)
            ELSE transfer_failed(ords, m, done, evs, order, t)

\* the whole message, for one answer of the host's transfer
take_order_and_payment_outcome(ords, m, done, evs, c, transfered_val, list_of_items, transfer_ok) ==
  IF ~ caller_is_customer(c)
  THEN panic(ords, m, done, evs, "You are not the customer!")
  ELSE IF ~ items_not_empty(list_of_items)
  THEN panic(ords, m, done, evs, "Can't take an empty order")
  ELSE pay_order(ords, m, done, evs,
                 new_order(list_of_items, c, next_id(ords)),
                 transfered_val, transfer_ok)

(* ------------------------------ actions -------------------------------- *)
\* ink::env::test::set_caller
set_caller(c) ==
  /\ msg = None
  /\ c # caller
  /\ caller' = c
  /\ UNCHANGED <<orders, orders_mapping, transferred_value, msg, ret,
                 last_transfer, transfers, events, returned>>

\* ink::env::test::set_value_transferred
set_value_transferred(v) ==
  /\ msg = None
  /\ v # transferred_value
  /\ transferred_value' = v
  /\ UNCHANGED <<orders, orders_mapping, caller, msg, ret, last_transfer,
                 transfers, events, returned>>

\* a caller sends the payable message take_order_and_payment(list_of_items);
\* what the previous call returned is no longer observable
call_take_order_and_payment(list_of_items) ==
  /\ msg = None
  /\ Len(orders) < MaxOrders
  /\ msg' = [tag |-> "Some", list_of_items |-> list_of_items]
  /\ ret' = None
  /\ last_transfer' = None
  /\ UNCHANGED <<orders, orders_mapping, caller, transferred_value,
                 transfers, events, returned>>

\* the contract runs the message to its end
take_order_and_payment(transfer_ok) ==
  /\ msg.tag = "Some"
  /\ LET out == take_order_and_payment_outcome(
                  orders, orders_mapping, transfers, events, caller,
                  transferred_value, msg.list_of_items, transfer_ok)
     IN  /\ orders' = out.orders
         /\ orders_mapping' = out.orders_mapping
         /\ ret' = out.ret
         /\ last_transfer' = out.last_transfer
         /\ transfers' = out.transfers
         /\ events' = out.events
         /\ returned' = IF out.ret.tag = "Ok"
                         THEN Append(returned, out.ret.order)
                         ELSE returned
  /\ msg' = None
  /\ UNCHANGED <<caller, transferred_value>>

\* a message that returns a plain value
Value(v) == [tag |-> "Value", value |-> v]

\* self.orders_mapping.get(id).expect("Oh no, Order not found")
get_single_order_result_from1(m, id) ==
  IF (id + 1) \in DOMAIN m THEN Value(m[id + 1])
  ELSE [tag |-> "Panic", message |-> "Oh no, Order not found"]

get_single_order_result(m, id) ==
  IF id \in DOMAIN m THEN Value(m[id])
  ELSE [tag |-> "Panic", message |-> "Oh no, Order not found"]

\* if get_all_orders.len() > 0 { Some(get_all_orders.to_vec()) } else { None }
get_orders_result_gt1(ords) ==
  IF Len(ords) > 1 THEN Value([tag |-> "Some", orders |-> ords])
  ELSE Value(None)

get_orders_result_unchecked(ords) == Value([tag |-> "Some", orders |-> ords])

get_orders_result(ords) ==
  IF Len(ords) > 0 THEN Value([tag |-> "Some", orders |-> ords])
  ELSE Value(None)

\* ids a caller asks for: the stored ones and the first two that are not
OrderIds == 0..(MaxOrders + 1)

\* a caller sends the message get_single_order(id)
call_get_single_order(id) ==
  /\ msg = None
  /\ msg' = [tag |-> "get_single_order", id |-> id]
  /\ ret' = None
  /\ last_transfer' = None
  /\ UNCHANGED <<orders, orders_mapping, caller, transferred_value,
                 transfers, events, returned>>

\* BurgerShop::get_single_order
get_single_order ==
  /\ msg.tag = "get_single_order"
  /\ ret' = get_single_order_result(orders_mapping, msg.id)
  /\ msg' = None
  /\ UNCHANGED <<orders, orders_mapping, caller, transferred_value,
                 last_transfer, transfers, events, returned>>

\* a caller sends the message get_orders()
call_get_orders ==
  /\ msg = None
  /\ msg' = [tag |-> "get_orders"]
  /\ ret' = None
  /\ last_transfer' = None
  /\ UNCHANGED <<orders, orders_mapping, caller, transferred_value,
                 transfers, events, returned>>

\* BurgerShop::get_orders
get_orders ==
  /\ msg.tag = "get_orders"
  /\ ret' = get_orders_result(orders)
  /\ msg' = None
  /\ UNCHANGED <<orders, orders_mapping, caller, transferred_value,
                 last_transfer, transfers, events, returned>>

Next ==
  \/ \E c \in Accounts : set_caller(c)
  \/ \E v \in TenderedValues : set_value_transferred(v)
  \/ \E l \in ItemLists : call_take_order_and_payment(l)
  \/ \E ok \in BOOLEAN : take_order_and_payment(ok)
  \/ \E id \in OrderIds : call_get_single_order(id)
  \/ get_single_order
  \/ call_get_orders
  \/ get_orders

Spec == Init /\ [][Next]_vars

(* ------------- orders priced near the width of Balance ----------------- *)
\* floor(u128::MAX / 10^12) = 340282366920938463463374607, the largest
\* total_price that converts to the payment unit
MaxConvertible == <<4607, 6337, 4634, 938, 6692, 2823, 340>>

\* 10^27, a total_price that does not convert
TenTo27 == <<0, 0, 0, 0, 0, 0, 1000>>

\* total prices of orders whose item lists are too long to enumerate
LargeTotals ==
  {BigOfNat(20), MaxConvertible, BigAdd(MaxConvertible, BigOfNat(1)),
   BigMul(BigOfNat(1000), multiply), TenTo27}

\* values attached to such calls: nothing, the exact amounts due of the two
\* totals that convert, u128::MAX, and what (MaxConvertible + 1) x 10^12
\* and 10^27 x 10^12 are modulo 2^128
LargeTendered ==
  {<<>>, BigMul(BigOfNat(20), multiply), BigMul(MaxConvertible, multiply),
   U128Max, <<8544, 3178, 5682>>,
   <<7088, 6357, 1364, 785, 7325, 730, 8123, 6615, 4352, 319>>}

\* a caller sends take_order_and_payment with a list whose total_price is
\* total; the list itself is not kept
call_priced_order(total) ==
  /\ msg = None
  /\ Len(orders) < MaxOrders
  /\ msg' = [tag |-> "priced", total_price |-> total]
  /\ ret' = None
  /\ last_transfer' = None
  /\ UNCHANGED <<orders, orders_mapping, caller, transferred_value,
                 transfers, events, returned>>

\* the contract runs that message from the built order on
pay_priced_order(transfer_ok) ==
  /\ msg.tag = "priced"
  /\ LET order == [list_of_items |-> <<>>,
                   customer      |-> caller,
                   total_price   |-> msg.total_price,
                   paid          |-> FALSE,
                   order_id      |-> next_id(orders)]
         out == pay_order(orders, orders_mapping, transfers, events, order,
                          transferred_value, transfer_ok)
     IN  /\ orders' = out.orders
         /\ orders_mapping' = out.orders_mapping
         /\ ret' = out.ret
         /\ last_transfer' = out.last_transfer
         /\ transfers' = out.transfers
         /\ events' = out.events
         /\ returned' = IF out.ret.tag = "Ok"
                         THEN Append(returned, out.ret.order)
                         ELSE returned
  /\ msg' = None
  /\ UNCHANGED <<caller, transferred_value>>

NextLargeOrder ==
  \/ \E v \in LargeTendered : set_value_transferred(v)
  \/ \E t \in LargeTotals : call_priced_order(t)
  \/ \E ok \in BOOLEAN : pay_priced_order(ok)

SpecLargeOrder == Init /\ [][NextLargeOrder]_vars

(* ------------------------- what the claims use ------------------------- *)
InFlight == msg.tag = "Some"

HasZeroQuantity(l) == \E i \in 1..Len(l) : l[i].amount = 0

\* sum of unit price x quantity, in plain naturals
RECURSIVE SumOfPrices(_)
SumOfPrices(l) ==
  IF l = <<>> THEN 0
  ELSE BurgerMenu_price(l[Len(l)].burger_menu) * l[Len(l)].amount
       + SumOfPrices(SubSeq(l, 1, Len(l) - 1))

\* the price of a list in the payment unit: the sum followed by twelve zeros
Due(l) == BigNorm(<<0, 0, 0>> \o BigOfNat(SumOfPrices(l)))

Unchanged == orders' = orders /\ orders_mapping' = orders_mapping

StoredOrders == {orders[i][2] : i \in 1..Len(orders)}

\* C1 (as stated): a call whose tendered amount differs from the order's
\* total_price fails and stores nothing.
C1_Original ==
  [][InFlight /\ transferred_value # Order_total_price(msg.list_of_items)
       => ret'.tag # "Ok" /\ Unchanged]_vars

\* C1 (amended): a call is accepted only when the tendered amount equals
\* total_price x 10^12; with any other amount it aborts and stores nothing;
\* with that amount, a caller other than the contract and no zero quantity
\* it succeeds unless the host's transfer fails.
C1_ExactConvertedAmount ==
  [][InFlight =>
       LET l == msg.list_of_items
       IN  /\ transferred_value # Due(l) => ret'.tag = "Panic" /\ Unchanged
           /\ ret'.tag = "Ok" =>
                /\ transferred_value = Due(l)
                /\ ret'.order.paid
                /\ Len(orders') = Len(orders) + 1
           /\ (/\ transferred_value = Due(l)
               /\ caller # account_id
               /\ ~ HasZeroQuantity(l)) =>
                \/ ret'.tag = "Ok" /\ last_transfer'.ok
                \/ ret'.tag = "Err" /\ ~ last_transfer'.ok]_vars

C1_Witness ==
  /\ ret.tag = "Ok"
  /\ ret.order.total_price = BigOfNat(22)
  /\ transferred_value = Due(ret.order.list_of_items)
  /\ transferred_value # ret.order.total_price

\* C2: a call with an empty item list fails and the number of orders is
\* unchanged, whatever the caller and the tendered amount.
C2_EmptyOrderRejected ==
  [][InFlight /\ msg.list_of_items = <<>>
       => ret'.tag # "Ok" /\ Len(orders') = Len(orders)]_vars

\* C3: for every list with positive quantities total_price is the sum of
\* unit price x quantity, and so is the total_price of every stored order.
C3_TotalPriceIsSum ==
  /\ InFlight /\ ~ HasZeroQuantity(msg.list_of_items)
       => Order_total_price(msg.list_of_items)
            = BigOfNat(SumOfPrices(msg.list_of_items))
  /\ \A o \in StoredOrders :
       o.total_price = BigOfNat(SumOfPrices(o.list_of_items))
  /\ \A k \in DOMAIN orders_mapping :
       orders_mapping[k].total_price
         = BigOfNat(SumOfPrices(orders_mapping[k].list_of_items))

C3_Witness ==
  \E o \in StoredOrders :
    /\ Len(o.list_of_items) = 1
    /\ o.list_of_items[1].amount = 2
    /\ o.total_price = <<20>>

\* C4: the ids in the ledger are 0, 1, .., n-1 in creation order, in the
\* vector's keys and in the orders' own order_id.
C4_IdsDense ==
  \A i \in 1..Len(orders) :
    /\ orders[i][1] = i - 1
    /\ orders[i][2].order_id = i - 1

C4_Witness ==
  /\ Len(orders) = 2
  /\ orders[1][1] = 0
  /\ orders[2][1] = 1
  /\ orders[2][2].order_id = 1

\* C5: when the host's transfer fails the call returns PaymentError and the
\* vector, the mapping, the host's transfers and the events are as before.
C5_TransferFailureLeavesLedger ==
  [][InFlight /\ last_transfer'.tag = "Some" /\ ~ last_transfer'.ok
       => /\ ret' = [tag |-> "Err", err |-> "PaymentError"]
          /\ Unchanged
          /\ transfers' = transfers
          /\ events' = events]_vars

C5_Witness ==
  /\ ret = [tag |-> "Err", err |-> "PaymentError"]
  /\ last_transfer.tag = "Some"
  /\ ~ last_transfer.ok
  /\ Len(orders) = 1

\* C6: a call that fails a validation (the caller is the contract's own
\* account, an item has quantity 0, the tendered amount is not the amount
\* due) aborts and leaves the vector, the mapping and the next id unchanged.
C6_FailedCallLeavesLedger ==
  [][InFlight /\ (\/ caller = account_id
                  \/ HasZeroQuantity(msg.list_of_items)
                  \/ transferred_value # Due(msg.list_of_items))
       => /\ ret'.tag = "Panic"
          /\ Unchanged
          /\ Len(orders') = Len(orders)]_vars

C6_Witness ==
  /\ ret = [tag |-> "Panic",
            message |-> "Please pay complete amount which is {}"]
  /\ caller # account_id
  /\ Len(orders) = 1

\* C7: an order is in the ledger, with paid = true, exactly when the host
\* carried out the transfer for it: the k-th transfer carried out is the one
\* for the k-th order, a call returns Ok exactly when its transfer succeeded,
\* and no order is stored unpaid.
C7_PaidIffTransferred ==
  /\ Len(transfers) = Len(orders)
  /\ \A i \in 1..Len(orders) :
       /\ orders[i][2].paid
       /\ (i - 1) \in DOMAIN orders_mapping
       /\ orders_mapping[i - 1].paid
       /\ transfers[i].value = orders[i][2].total_price
  /\ ret.tag = "Ok" <=> (last_transfer.tag = "Some" /\ last_transfer.ok)
  /\ ret.tag = "Ok" => ret.order.paid /\ ret.order = orders[Len(orders)][2]

C7_Witness ==
  /\ Len(orders) = 2
  /\ ret.tag = "Ok"
  /\ last_transfer.ok
  /\ orders[1][2].paid /\ orders[2][2].paid

\* C8: on a successful payment the amount handed to the host's transfer is
\* the amount the customer tendered, and it goes to the merchant.
C8_TransferOfTendered ==
  [][InFlight /\ ret'.tag = "Ok"
       => /\ last_transfer'.value = transferred_value
          /\ last_transfer'.to = account_id]_vars

\* C9 (as stated): a call by the merchant account returns the error
\* UnauthorizedCreator.
C9_Original ==
  [][InFlight /\ caller = account_id
       => ret' = [tag |-> "Err", err |-> "UnauthorizedCreator"]]_vars

\* C9 (amended): a call by the contract's own account aborts on the failed
\* assertion "You are not the customer!" and stores nothing; no stored order
\* has that account as its customer, and the customer of a stored order is
\* the caller of the call that created it.
C9_MerchantCannotOrder ==
  [][InFlight =>
       /\ caller = account_id =>
            /\ ret' = [tag |-> "Panic",
                       message |-> "You are not the customer!"]
            /\ Unchanged
       /\ ret'.tag = "Ok" =>
            /\ ret'.order.customer = caller
            /\ orders'[Len(orders')][2].customer = caller
            /\ orders_mapping'[Len(orders)].customer = caller
       /\ \A i \in 1..Len(orders') :
            /\ orders'[i][2].customer # account_id
            /\ orders_mapping'[i - 1].customer # account_id
            /\ i <= Len(orders) => orders'[i][2].customer = orders[i][2].customer
     ]_vars

C9_Witness ==
  /\ ret = [tag |-> "Panic", message |-> "You are not the customer!"]
  /\ caller = account_id
  /\ Len(orders) = 1
  /\ orders[1][2].customer = "charlie"

\* C10: a call with an item of quantity 0 aborts and stores nothing, and
\* every item of every stored order has quantity >= 1.
C10_QuantitiesPositive ==
  [][InFlight =>
       /\ HasZeroQuantity(msg.list_of_items) => ret'.tag = "Panic" /\ Unchanged
       /\ \A i \in 1..Len(orders') :
            /\ ~ HasZeroQuantity(orders'[i][2].list_of_items)
            /\ ~ HasZeroQuantity(orders_mapping'[i - 1].list_of_items)]_vars

C10_Witness ==
  /\ ret = [tag |-> "Panic", message |-> "Can't take an empty order"]
  /\ caller # account_id
  /\ Len(orders) = 1
  /\ Len(orders[1][2].list_of_items) = 2

\* C11: the ledger is append-only: every step leaves the stored orders as
\* they are, in the vector and in the mapping; a successful creation appends
\* exactly one order; a paid order stays paid.
C11_AppendOnly ==
  [][/\ Len(orders') >= Len(orders)
     /\ SubSeq(orders', 1, Len(orders)) = orders
     /\ \A k \in DOMAIN orders_mapping :
          /\ k \in DOMAIN orders_mapping'
          /\ orders_mapping'[k] = orders_mapping[k]
          /\ orders_mapping[k].paid => orders_mapping'[k].paid
     /\ \A i \in 1..Len(orders) : orders[i][2].paid => orders'[i][2].paid
     /\ InFlight /\ ret'.tag = "Ok" =>
          /\ Len(orders') = Len(orders) + 1
          /\ DOMAIN orders_mapping' = DOMAIN orders_mapping \cup {Len(orders)}
     /\ ~ (InFlight /\ ret'.tag = "Ok") =>
          /\ orders' = orders
          /\ orders_mapping' = orders_mapping]_vars

C11_Witness ==
  /\ Len(orders) = 2
  /\ returned = <<orders[1][2], orders[2][2]>>
  /\ orders[1][2].customer # orders[2][2].customer
  /\ orders[1][2].list_of_items # orders[2][2].list_of_items
  /\ ret.tag = "Value"

NotFound == [tag |-> "Panic", message |-> "Oh no, Order not found"]

\* C12 (as stated): get_single_order with an id that no order has returns
\* the error OrderNotFound.
C12_Original ==
  [][msg.tag = "get_single_order" /\ msg.id >= Len(orders)
       => ret' = [tag |-> "Err", err |-> "OrderNotFound"]]_vars

\* C12 (amended): get_single_order aborts on "Oh no, Order not found"
\* exactly when the id is not below the number of orders created, otherwise
\* it returns the order with that id; either way storage is unchanged.
C12_GetSingleOrder ==
  [][msg.tag = "get_single_order" =>
       /\ ret' = NotFound <=> msg.id >= Len(returned)
       /\ msg.id < Len(orders) =>
            /\ ret'.tag = "Value"
            /\ ret'.value.order_id = msg.id
            /\ ret'.value = orders[msg.id + 1][2]
       /\ Unchanged
       /\ transfers' = transfers
       /\ events' = events]_vars

C12_Witness ==
  /\ ret = NotFound
  /\ Len(orders) = 1
  /\ msg = None

\* C13 (as stated): get_orders returns the list of all orders, which for a
\* ledger without orders is the empty list.
C13_Original ==
  [][msg.tag = "get_orders"
       => ret' = Value([tag |-> "Some", orders |-> orders])]_vars

\* C13 (amended): get_orders never aborts; for a ledger with orders it
\* returns Some of all of them as (id, order) pairs in creation order, for a
\* ledger without orders it returns None and not an empty list.
C13_GetOrders ==
  [][msg.tag = "get_orders" =>
       /\ ret'.tag = "Value"
       /\ Len(returned) > 0 =>
            /\ ret'.value.tag = "Some"
            /\ Len(ret'.value.orders) = Len(returned)
            /\ \A i \in 1..Len(returned) :
                 ret'.value.orders[i] = <<i - 1, returned[i]>>
       /\ Len(returned) = 0 => ret'.value = None
       /\ Unchanged]_vars

C13_Witness ==
  /\ Len(orders) = 2
  /\ ret = Value([tag |-> "Some", orders |-> orders])
  /\ orders[1][2].customer # orders[2][2].customer

\* C14: get_orders returns None exactly when the ledger holds no order, and
\* Some of a non-empty list otherwise.
C14_NoneIffEmpty ==
  [][msg.tag = "get_orders" =>
       /\ ret' = Value(None) <=> Len(orders) = 0
       /\ ret' # Value(None) =>
            /\ ret'.tag = "Value"
            /\ ret'.value.tag = "Some"
            /\ Len(ret'.value.orders) > 0]_vars

C14_Witness ==
  /\ ret = Value(None)
  /\ orders = <<>>
  /\ orders_mapping = <<>>
  /\ transferred_value # <<>>

\* C17: the vector and the mapping hold the same orders: entry i of the
\* vector is (i-1, o), the mapping has exactly the keys 0..n-1, its entry
\* i-1 is o, and o's order_id is i-1.
C17_StoresConsistent ==
  /\ DOMAIN orders_mapping = {i - 1 : i \in 1..Len(orders)}
  /\ \A i \in 1..Len(orders) :
       /\ orders[i][1] = i - 1
       /\ orders_mapping[i - 1] = orders[i][2]
       /\ orders[i][2].order_id = i - 1

C17_Witness ==
  /\ Len(orders) = 2
  /\ DOMAIN orders_mapping = {0, 1}
  /\ orders_mapping[0] = orders[1][2]
  /\ orders_mapping[1] = orders[2][2]
  /\ orders_mapping[0] # orders_mapping[1]

\* C18: get_single_order with the order_id of an order that a caller
\* received as Ok(order) returns that very order, however many orders were
\* created since, and the order received last is the last element of what
\* get_orders returns.
C18_ReadAfterWrite ==
  [][/\ msg.tag = "get_single_order" =>
          \A k \in 1..Len(returned) :
            msg.id = returned[k].order_id => ret' = Value(returned[k])
     /\ msg.tag = "get_orders" /\ Len(returned) > 0 =>
          LET last == returned[Len(returned)]
          IN  /\ ret'.tag = "Value"
              /\ ret'.value.tag = "Some"
              /\ ret'.value.orders[Len(ret'.value.orders)]
                   = <<last.order_id, last>>]_vars

C18_Witness ==
  /\ Len(returned) = 2
  /\ ret = Value(returned[1])
  /\ returned[1].order_id = 0
  /\ returned[1] # returned[2]

\* C19: a total_price whose conversion to the payment unit exceeds u128
\* aborts the call on "Overflow!!!" with nothing stored and nothing
\* transferred, whatever was tendered; an order is accepted only when its
\* total_price converts and the tendered amount is the exact product.
C19_OverflowAborts ==
  [][msg.tag = "priced" =>
       LET exceeds == BigLess(MaxConvertible, msg.total_price)
       IN  /\ exceeds =>
                /\ ret' = [tag |-> "Panic", message |-> "Overflow!!!"]
                /\ Unchanged
                /\ transfers' = transfers
                /\ last_transfer' = None
           /\ ~ exceeds => ret' # [tag |-> "Panic", message |-> "Overflow!!!"]
           /\ ret'.tag = "Ok" =>
                /\ ~ exceeds
                /\ transferred_value
                     = BigNorm(<<0, 0, 0>> \o msg.total_price)]_vars

C19_Witness ==
  /\ ret = [tag |-> "Panic", message |-> "Overflow!!!"]
  /\ transferred_value = <<8544, 3178, 5682>>
  /\ Len(orders) = 1
  /\ orders[1][2].total_price = MaxConvertible

====
